---------------------------- MODULE Spec2Model ----------------------------
(***************************************************************************)
(* A model of packages/cubejs-kusto-driver/src/KustoDriver.ts: the         *)
(* KustoDriver class (construction, query execution, result shaping) and   *)
(* the KustoQuery / KustoFilter dialect adapters.                          *)
(*                                                                         *)
(* Text is modelled as a sequence of one-character strings, so that        *)
(* substitution, escaping, trimming and prefix tests work on characters.   *)
(***************************************************************************)
EXTENDS Integers, Sequences, FiniteSets, TLC

VARIABLES
    phase,      \* "new" | "ready" | "failed" | "dialect": where the object is
    cfgIn,      \* the configuration object handed to the constructor
    env,        \* process.env as the constructor sees it
    resolved,   \* the constructor's locals (lines 53-85) after resolution
    config,     \* this.config
    client,     \* this.client: the connection string the client was built from
    events,     \* what the constructor did, in order (builder calls, new Client)
    op,         \* the operation that ran last
    args,       \* its arguments
    sent,       \* the requests it issued to the client, in order
    reply,      \* what the client answered to the last request
    outcome     \* what the operation returned or threw

vars == <<phase, cfgIn, env, resolved, config, client, events,
          op, args, sent, reply, outcome>>

(***************************************************************************)
(* JavaScript values used by the constructor.                              *)
(***************************************************************************)
\* An absent string property or environment variable.
Undefined == "<undefined>"

\* JS truthiness of a string-or-undefined value.
Truthy(s) == s # Undefined /\ s # ""

\* JS `a || b` on string-or-undefined operands.
Or(a, b) == IF Truthy(a) THEN a ELSE b

\* config.useManagedIdentity: absent, or a boolean.
NoFlag == [t |-> "undefined"]
Bool(b) == [t |-> "boolean", v |-> b]
TypeOf(x) == x.t

NoConfig == [absent |-> TRUE]
NoClient == [absent |-> TRUE]
NoKcsb == [absent |-> TRUE]
NoResolved == [absent |-> TRUE]
NoReply == [kind |-> "none"]
NoOutcome == [kind |-> "none"]

(***************************************************************************)
(* KustoDriver.constructor                                                 *)
(***************************************************************************)
\* Lines 76-81 with the explicit boolean ignored when it is false.
ResolveFlagOr(cfg, e) ==
    (TypeOf(cfg.useManagedIdentity) = "boolean" /\ cfg.useManagedIdentity.v)
        \/ e.KUSTO_USE_MANAGED_IDENTITY = "true"

\* Lines 76-81.
ResolveFlag(cfg, e) ==
    IF TypeOf(cfg.useManagedIdentity) = "boolean"
    THEN cfg.useManagedIdentity.v
    ELSE e.KUSTO_USE_MANAGED_IDENTITY = "true"

\* Lines 53-85: the constructor's locals.
Resolve(cfg, e) ==
    [clusterUrl |-> Or(cfg.clusterUrl, e.KUSTO_CLUSTER_URL),
     database |-> Or(cfg.database, e.KUSTO_DATABASE),
     appId |-> Or(Or(cfg.appId, cfg.clientId), e.KUSTO_CLIENT_ID),
     appKey |-> Or(Or(cfg.appKey, cfg.clientSecret), e.KUSTO_CLIENT_SECRET),
     authorityId |-> Or(cfg.authorityId, e.KUSTO_TENANT_ID),
     useManagedIdentity |-> ResolveFlag(cfg, e),
     userManagedIdentityId |->
         Or(cfg.userManagedIdentityId, e.KUSTO_USER_MANAGED_IDENTITY_ID)]

\* Line 87 with && in place of ||.
MissingParamsBoth(r) == ~Truthy(r.clusterUrl) /\ ~Truthy(r.database)

\* Line 87: !clusterUrl || !database.
MissingParams(r) == ~Truthy(r.clusterUrl) \/ ~Truthy(r.database)

MissingParamsError == "Please specify Kusto connection parameters (clusterUrl, database)"
NoAuthError == "No valid Kusto authentication method configured."

\* Lines 103-130 with the application-key branch tested first.
BuildKcsbAppKeyFirst(r) ==
    IF Truthy(r.appId) /\ Truthy(r.appKey) /\ Truthy(r.authorityId)
    THEN [kind |-> "withAadApplicationKeyAuthentication",
          with |-> <<r.clusterUrl, r.appId, r.appKey, r.authorityId>>]
    ELSE IF r.useManagedIdentity
    THEN IF Truthy(r.userManagedIdentityId)
         THEN [kind |-> "withUserManagedIdentity",
               with |-> <<r.clusterUrl, r.userManagedIdentityId>>]
         ELSE [kind |-> "withSystemManagedIdentity", with |-> <<r.clusterUrl>>]
    ELSE [kind |-> "withTokenCredential",
          with |-> <<r.clusterUrl, "AzureCliCredential">>]

\* Lines 101-130: the connection string builder that is called.
BuildKcsb(r) ==
    IF r.useManagedIdentity
    THEN IF Truthy(r.userManagedIdentityId)
         THEN [kind |-> "withUserManagedIdentity",
               with |-> <<r.clusterUrl, r.userManagedIdentityId>>]
         ELSE [kind |-> "withSystemManagedIdentity", with |-> <<r.clusterUrl>>]
    ELSE IF Truthy(r.appId) /\ Truthy(r.appKey) /\ Truthy(r.authorityId)
    THEN [kind |-> "withAadApplicationKeyAuthentication",
          with |-> <<r.clusterUrl, r.appId, r.appKey, r.authorityId>>]
    ELSE [kind |-> "withTokenCredential",
          with |-> <<r.clusterUrl, "AzureCliCredential">>]

\* Lines 48-137: what `new KustoDriver(cfg)` does under environment e.
Constructor(cfg, e) ==
    LET r == Resolve(cfg, e) IN
    IF MissingParams(r)
    THEN [threw |-> TRUE, error |-> MissingParamsError, locals |-> r,
          config |-> NoConfig, client |-> NoClient, events |-> <<>>]
    ELSE LET kcsb == BuildKcsb(r) IN
         IF kcsb = NoKcsb
         THEN [threw |-> TRUE, error |-> NoAuthError, locals |-> r,
               config |-> r, client |-> NoClient, events |-> <<>>]
         ELSE [threw |-> FALSE, error |-> "", locals |-> r,
               config |-> r, client |-> [kcsb |-> kcsb],
               events |-> <<kcsb.kind, "new Client">>]

\* The configurations and environments the constructor is tried on.
CfgUrls == {Undefined, "", "https://cfg.kusto"}
CfgDatabases == {Undefined, "", "cfgdb"}
CfgAppIds == {Undefined, "cfg-app"}
CfgClientIds == {Undefined, "cfg-client"}
CfgAppKeys == {Undefined, "cfg-key"}
CfgClientSecrets == {Undefined, "cfg-secret"}
CfgAuthorities == {Undefined, "cfg-tenant"}
CfgFlags == {NoFlag, Bool(TRUE), Bool(FALSE)}
CfgIdentityIds == {Undefined, "", "cfg-identity"}

Configurations ==
    [clusterUrl : CfgUrls, database : CfgDatabases,
     appId : CfgAppIds, clientId : CfgClientIds,
     appKey : CfgAppKeys, clientSecret : CfgClientSecrets,
     authorityId : CfgAuthorities,
     useManagedIdentity : CfgFlags,
     userManagedIdentityId : CfgIdentityIds]

Environments ==
    [KUSTO_CLUSTER_URL : {Undefined, "", "https://env.kusto"},
     KUSTO_DATABASE : {Undefined, "envdb"},
     KUSTO_CLIENT_ID : {Undefined, "env-app"},
     KUSTO_CLIENT_SECRET : {Undefined, "env-key"},
     KUSTO_TENANT_ID : {Undefined, "env-tenant"},
     KUSTO_USE_MANAGED_IDENTITY : {Undefined, "true", "TRUE"},
     KUSTO_USER_MANAGED_IDENTITY_ID : {Undefined, "env-identity"}]

EmptyConfiguration ==
    [clusterUrl |-> Undefined, database |-> Undefined, appId |-> Undefined,
     clientId |-> Undefined, appKey |-> Undefined, clientSecret |-> Undefined,
     authorityId |-> Undefined, useManagedIdentity |-> NoFlag,
     userManagedIdentityId |-> Undefined]

EmptyEnvironment ==
    [KUSTO_CLUSTER_URL |-> Undefined, KUSTO_DATABASE |-> Undefined,
     KUSTO_CLIENT_ID |-> Undefined, KUSTO_CLIENT_SECRET |-> Undefined,
     KUSTO_TENANT_ID |-> Undefined, KUSTO_USE_MANAGED_IDENTITY |-> Undefined,
     KUSTO_USER_MANAGED_IDENTITY_ID |-> Undefined]

InitCtor ==
    /\ phase = "new"
    /\ cfgIn = EmptyConfiguration
    /\ env = EmptyEnvironment
    /\ resolved = NoResolved
    /\ config = NoConfig
    /\ client = NoClient
    /\ events = <<>>
    /\ op = "none"
    /\ args = <<>>
    /\ sent = <<>>
    /\ reply = NoReply
    /\ outcome = NoOutcome

\* new KustoDriver(cfg) with process.env = e.
Construct(cfg, e) ==
    /\ phase = "new"
    /\ LET c == Constructor(cfg, e) IN
        /\ phase' = IF c.threw THEN "failed" ELSE "ready"
        /\ cfgIn' = cfg
        /\ env' = e
        /\ resolved' = c.locals
        /\ config' = c.config
        /\ client' = c.client
        /\ events' = c.events
        /\ op' = "constructor"
        /\ args' = <<>>
        /\ sent' = <<>>
        /\ reply' = NoReply
        /\ outcome' = IF c.threw THEN [kind |-> "error", error |-> c.error]
                                 ELSE [kind |-> "ok"]

NextCtor ==
    /\ phase = "new"
    /\ \E cfg \in Configurations, e \in Environments : Construct(cfg, e)

SpecCtor == InitCtor /\ [][NextCtor]_vars

(***************************************************************************)
(* Text and JavaScript values handled by query().                          *)
(***************************************************************************)
\* Characters String.prototype.trimStart removes (those the model uses).
IsWhitespace(c) == c \in {" ", "\t", "\n"}

RECURSIVE TrimStart(_)
\* String.prototype.trimStart.
TrimStart(s) ==
    IF s # <<>> /\ IsWhitespace(Head(s)) THEN TrimStart(Tail(s)) ELSE s

\* String.prototype.startsWith('.').
StartsWithDot(s) == s # <<>> /\ Head(s) = "."

RECURSIVE EscapeQuotes(_)
\* value.replace(/'/g, '\'\''): every single quote doubled.
EscapeQuotes(s) ==
    IF s = <<>> THEN <<>>
    ELSE IF Head(s) = "'" THEN <<"'", "'">> \o EscapeQuotes(Tail(s))
    ELSE <<Head(s)>> \o EscapeQuotes(Tail(s))

DigitChar(d) == <<"0", "1", "2", "3", "4", "5", "6", "7", "8", "9">>[d + 1]

RECURSIVE NatToString(_)
NatToString(n) ==
    IF n < 10 THEN <<DigitChar(n)>>
    ELSE NatToString(n \div 10) \o <<DigitChar(n % 10)>>

\* Number.prototype.toString on an integer.
NumberToString(n) == IF n < 0 THEN <<"-">> \o NatToString(-n) ELSE NatToString(n)

RECURSIVE PadStart(_, _)
\* Digits of n, zero-padded on the left to width w.
PadStart(n, w) ==
    IF w <= 1 THEN NatToString(n)
    ELSE IF Len(NatToString(n)) >= w THEN NatToString(n)
    ELSE <<"0">> \o PadStart(n, w - 1)

\* Date.prototype.toISOString: YYYY-MM-DDTHH:mm:ss.sssZ of a UTC date.
ToISOString(d) ==
    PadStart(d.year, 4) \o <<"-">> \o PadStart(d.month, 2) \o <<"-">>
        \o PadStart(d.day, 2) \o <<"T">> \o PadStart(d.hour, 2) \o <<":">>
        \o PadStart(d.minute, 2) \o <<":">> \o PadStart(d.second, 2)
        \o <<".">> \o PadStart(d.ms, 3) \o <<"Z">>

RECURSIVE JoinJsonStrings(_)
JoinJsonStrings(items) ==
    IF items = <<>> THEN <<>>
    ELSE <<"\"">> \o Head(items) \o <<"\"">>
         \o (IF Len(items) > 1 THEN <<",">> ELSE <<>>)
         \o JoinJsonStrings(Tail(items))

\* JSON.stringify of an array of strings (of characters JSON leaves as they
\* are: no double quote, backslash or control character).
JsonStringify(items) == <<"[">> \o JoinJsonStrings(items) \o <<"]">>

\* Lines 159-174: the literal a value is rendered as.
Render(value) ==
    CASE value.t \in {"null", "undefined"} -> <<"n", "u", "l", "l">>
      [] value.t = "string" -> <<"'">> \o EscapeQuotes(value.v) \o <<"'">>
      [] value.t = "number" -> NumberToString(value.v)
      [] value.t = "boolean" ->
            IF value.v THEN <<"t", "r", "u", "e">>
                       ELSE <<"f", "a", "l", "s", "e">>
      [] value.t = "date" ->
            <<"d", "a", "t", "e", "t", "i", "m", "e", "(", "'">>
                \o ToISOString(value) \o <<"'", ")">>
      [] OTHER -> <<"'">> \o EscapeQuotes(JsonStringify(value.items)) \o <<"'">>

RECURSIVE ReplaceAll(_, _, _)
\* Lines 155-177: query.replace(/\?/g, callback), one pass over the text
\* given; paramIndex counts the values consumed so far.
ReplaceAll(text, values, paramIndex) ==
    IF text = <<>> THEN <<>>
    ELSE IF Head(text) = "?"
    THEN IF paramIndex < Len(values)
         THEN Render(values[paramIndex + 1])
                  \o ReplaceAll(Tail(text), values, paramIndex + 1)
         ELSE <<"?">> \o ReplaceAll(Tail(text), values, paramIndex)
    ELSE <<Head(text)>> \o ReplaceAll(Tail(text), values, paramIndex)

RECURSIVE ReplaceFirst(_, _)
\* The text with its first '?' replaced by the literal.
ReplaceFirst(text, literal) ==
    IF text = <<>> THEN <<>>
    ELSE IF Head(text) = "?" THEN literal \o Tail(text)
    ELSE <<Head(text)>> \o ReplaceFirst(Tail(text), literal)

RECURSIVE ReplaceEach(_, _)
\* One replace-first per value, each over the text the previous one left.
ReplaceEach(text, values) ==
    IF values = <<>> THEN text
    ELSE ReplaceEach(ReplaceFirst(text, Render(Head(values))), Tail(values))

\* Lines 152-178 as a loop of replace-first calls, which rescans inserted text.
PrepareQueryRescan(text, values) ==
    IF Len(values) > 0 THEN ReplaceEach(text, values) ELSE text

\* Lines 152-178: the text after parameter substitution.
PrepareQuery(text, values) ==
    IF Len(values) > 0 THEN ReplaceAll(text, values, 0) ELSE text

(***************************************************************************)
(* The client's answers: a failure, or a response with primary results.    *)
(***************************************************************************)
\* primaryResults is truthy and primaryResults[0] is (lines 186, 253).
HasPrimary(r) == r.primaryResultsDefined /\ Len(r.primaryResults) > 0

\* Lines 185-189: Array.from(results.primaryResults[0].rows()), or [].
RowsOf(r) == IF HasPrimary(r) THEN r.primaryResults[1].rows ELSE <<>>

\* col.name ?? '' and col.type ?? '' (lines 256-257).
Coalesce(x) == IF x = Undefined THEN "" ELSE x

\* Lines 252-258: one {name, type} per column of the first primary result.
TypesOf(r) ==
    IF HasPrimary(r)
    THEN LET cols == r.primaryResults[1].columns IN
         [i \in 1..Len(cols) |->
             [name |-> Coalesce(cols[i].name), type |-> Coalesce(cols[i].type)]]
    ELSE <<>>

(***************************************************************************)
(* KustoDriver's methods.  Each is an operator from the driver's state,    *)
(* the arguments and the client's answer r to the requests issued and the  *)
(* result; the actions below apply them.                                   *)
(***************************************************************************)
\* Lines 181-183 without the trimStart.
RouteNoTrim(q) == IF StartsWithDot(q) THEN "executeMgmt" ELSE "executeQuery"

\* Lines 181-183: the client method chosen for the substituted text q.
Route(q) ==
    IF StartsWithDot(TrimStart(q)) THEN "executeMgmt" ELSE "executeQuery"

\* Lines 148-190 with a failed request issued a second time.
QueryCallRetry(cfg, text, values, r) ==
    LET q == PrepareQuery(text, values)
        req == [method |-> Route(q), database |-> cfg.database,
                query |-> q, crp |-> TRUE]
    IN  IF r.kind = "error"
        THEN [sent |-> <<req, req>>, outcome |-> [kind |-> "ok", rows |-> <<>>]]
        ELSE [sent |-> <<req>>, outcome |-> [kind |-> "ok", rows |-> RowsOf(r)]]

\* Lines 148-190: query(text, values).
QueryCall(cfg, text, values, r) ==
    LET q == PrepareQuery(text, values)
        req == [method |-> Route(q), database |-> cfg.database,
                query |-> q, crp |-> TRUE]
    IN  IF r.kind = "error"
        THEN [sent |-> <<req>>, outcome |-> [kind |-> "error", error |-> r.error]]
        ELSE [sent |-> <<req>>, outcome |-> [kind |-> "ok", rows |-> RowsOf(r)]]

\* 'print 1' (line 145).
TestConnectionText == <<"p", "r", "i", "n", "t", " ", "1">>

\* '.show tables | project table_name = TableName' (line 246).
GetTablesText ==
    <<".", "s", "h", "o", "w", " ", "t", "a", "b", "l", "e", "s", " ", "|",
      " ", "p", "r", "o", "j", "e", "c", "t", " ", "t", "a", "b", "l", "e",
      "_", "n", "a", "m", "e", " ", "=", " ", "T", "a", "b", "l", "e", "N",
      "a", "m", "e">>

\* Lines 194-236: the template literal, its first two lines by character and
\* the rest (the project clause) as one element.
InformationSchemaQuery ==
    <<"\n", " ", " ", " ", " ", " ", " ", ".", "s", "h", "o", "w", " ",
      "d", "a", "t", "a", "b", "a", "s", "e", " ", "s", "c", "h", "e", "m",
      "a", "\n", " ", " ", " ", " ", " ", " ", " ", " ", "|", " ", "w",
      "h", "e", "r", "e", " ", "i", "s", "n", "o", "t", "e", "m", "p", "t",
      "y", "(", "C", "o", "l", "u", "m", "n", "N", "a", "m", "e", ")",
      "\n", "| project table_name, column_name, data_type = case(...)">>

\* Lines 143-146: testConnection() awaits query('print 1') and returns nothing.
TestConnectionCall(cfg, r) ==
    LET c == QueryCall(cfg, TestConnectionText, <<>>, r) IN
    [sent |-> c.sent,
     outcome |-> IF c.outcome.kind = "error" THEN c.outcome ELSE [kind |-> "void"]]

\* Lines 244-247: getTablesQuery(schemaName) ignores schemaName.
GetTablesQueryCall(cfg, schemaName, r) == QueryCall(cfg, GetTablesText, <<>>, r)

\* Lines 249-265 with the values substituted into the text as query() does.
DownloadCallSubstituting(cfg, text, values, r) ==
    LET req == [method |-> "execute", database |-> cfg.database,
                query |-> PrepareQuery(text, values)]
    IN  IF r.kind = "error"
        THEN [sent |-> <<req>>, outcome |-> [kind |-> "error", error |-> r.error]]
        ELSE [sent |-> <<req>>,
              outcome |-> [kind |-> "ok", rows |-> RowsOf(r), types |-> TypesOf(r)]]

\* Lines 249-265: downloadQueryResults(query, values, _options).
DownloadCall(cfg, text, values, r) ==
    LET req == [method |-> "execute", database |-> cfg.database, query |-> text]
    IN  IF r.kind = "error"
        THEN [sent |-> <<req>>, outcome |-> [kind |-> "error", error |-> r.error]]
        ELSE [sent |-> <<req>>,
              outcome |-> [kind |-> "ok", rows |-> RowsOf(r), types |-> TypesOf(r)]]

\* Lines 139-141: readOnly().
ReadOnly(cfg) == TRUE

CreateSchemaError == "Unable to create schema, Kusto does not support it"

\* Lines 239-242 trying a management command first.
CreateSchemaCallTrying(cfg, schemaName) ==
    [sent |-> <<[method |-> "executeMgmt", database |-> cfg.database,
                 query |-> schemaName, crp |-> TRUE]>>,
     outcome |-> [kind |-> "error", error |-> CreateSchemaError]]

\* Lines 239-242: createSchemaIfNotExists(schemaName).
CreateSchemaCall(cfg, schemaName) ==
    [sent |-> <<>>, outcome |-> [kind |-> "error", error |-> CreateSchemaError]]

(***************************************************************************)
(* Inputs.                                                                 *)
(***************************************************************************)
\* Longest query text and longest value list substitution is tried on.
MaxLen == 3
MaxVals == 2

Alphabet == {"?", ".", " ", "a"}

TextsUpTo(n) == UNION {[1..k -> Alphabet] : k \in 0..n}

ADate == [t |-> "date", year |-> 2023, month |-> 1, day |-> 2,
          hour |-> 0, minute |-> 0, second |-> 5, ms |-> 0]

SampleValues ==
    {[t |-> "null"], [t |-> "undefined"],
     [t |-> "string", v |-> <<"?">>], [t |-> "string", v |-> <<"a", "'">>],
     [t |-> "number", v |-> 7], [t |-> "number", v |-> -12],
     [t |-> "boolean", v |-> TRUE], [t |-> "boolean", v |-> FALSE],
     ADate,
     [t |-> "object", items |-> <<<<"?", "'">>, <<"a">>>>]}

\* The values substitution is tried on: one of each rendering, and the ones
\* whose rendering holds a '?' or a quote.
SubstValues ==
    {[t |-> "null"], [t |-> "string", v |-> <<"?">>],
     [t |-> "string", v |-> <<"a", "'">>], [t |-> "number", v |-> -12],
     [t |-> "boolean", v |-> TRUE], ADate,
     [t |-> "object", items |-> <<<<"?", "'">>, <<"a">>>>]}

ValueListsUpTo(n) == UNION {[1..k -> SubstValues] : k \in 0..n}

Row1 == [Id |-> 1, Name |-> "Test"]
Row2 == [Id |-> 2, Name |-> "Test2"]
Table1 == [columns |-> <<[name |-> "Id", type |-> "int"],
                         [name |-> Undefined, type |-> "string"],
                         [name |-> "Value", type |-> Undefined]>>,
           rows |-> <<Row2, Row1>>]
Table2 == [columns |-> <<[name |-> "Other", type |-> "real"]>>,
           rows |-> <<Row1>>]
EmptyTable == [columns |-> <<>>, rows |-> <<>>]

Results(defined, tables) ==
    [kind |-> "results", primaryResultsDefined |-> defined,
     primaryResults |-> tables]

OkReply == Results(TRUE, <<Table1>>)

\* What the client may answer to a request.
Replies ==
    {[kind |-> "error", error |-> "Request failed"],
     [kind |-> "error", error |-> "Semantic error"],
     Results(FALSE, <<>>), Results(TRUE, <<>>), Results(TRUE, <<EmptyTable>>),
     OkReply, Results(TRUE, <<Table1, Table2>>), Results(TRUE, <<Table2, Table1>>)}

\* Query texts the driver is called with: the short ones, the driver's own,
\* and ones with leading whitespace.
DriverTexts ==
    {<<>>} \cup {<<a>> : a \in Alphabet} \cup {<<a, b>> : a, b \in Alphabet}
        \cup {TestConnectionText, GetTablesText, InformationSchemaQuery,
              <<" ", "\t", "\n", ".", "a", "?">>, <<"\n", "a", ".", "?">>}

DriverValueLists == {<<>>} \cup {<<v>> : v \in SampleValues}

SchemaNames == {"", "test_schema", ".show tables"}

WithFlag(b) == [EmptyConfiguration EXCEPT !.useManagedIdentity = Bool(b)]

\* One configuration per authentication strategy, as {config, env} pairs.
DriverSetups ==
    {<<[EmptyConfiguration EXCEPT !.clusterUrl = "https://cfg.kusto",
                                  !.database = "cfgdb"],
       EmptyEnvironment>>,
     <<[WithFlag(TRUE) EXCEPT !.clusterUrl = "https://cfg.kusto",
                              !.database = "cfgdb"],
       EmptyEnvironment>>,
     <<[WithFlag(FALSE) EXCEPT !.clientId = "cfg-client",
                               !.clientSecret = "cfg-secret",
                               !.authorityId = "cfg-tenant"],
       [EmptyEnvironment EXCEPT !.KUSTO_CLUSTER_URL = "https://env.kusto",
                                !.KUSTO_DATABASE = "envdb",
                                !.KUSTO_USE_MANAGED_IDENTITY = "true"]>>,
     <<EmptyConfiguration,
       [EmptyEnvironment EXCEPT !.KUSTO_CLUSTER_URL = "https://env.kusto",
                                !.KUSTO_DATABASE = "envdb",
                                !.KUSTO_USE_MANAGED_IDENTITY = "true",
                                !.KUSTO_USER_MANAGED_IDENTITY_ID = "env-identity"]>>}

(***************************************************************************)
(* The driver in use: a constructed driver, one method call per step.      *)
(***************************************************************************)
Constructed(cfg, e) ==
    LET c == Constructor(cfg, e) IN
    /\ ~c.threw
    /\ phase = "ready"
    /\ cfgIn = cfg
    /\ env = e
    /\ resolved = c.locals
    /\ config = c.config
    /\ client = c.client
    /\ events = c.events
    /\ op = "constructor"
    /\ args = <<>>
    /\ sent = <<>>
    /\ reply = NoReply
    /\ outcome = [kind |-> "ok"]

Init == \E setup \in DriverSetups : Constructed(setup[1], setup[2])

\* config and client are readonly fields no method assigns.
Frame == UNCHANGED <<phase, cfgIn, env, resolved, config, client, events>>

Query(text, values, r) ==
    /\ phase = "ready"
    /\ LET c == QueryCall(config, text, values, r) IN
        /\ op' = "query"
        /\ args' = <<text, values>>
        /\ sent' = c.sent
        /\ reply' = r
        /\ outcome' = c.outcome
    /\ Frame

TestConnection(r) ==
    /\ phase = "ready"
    /\ LET c == TestConnectionCall(config, r) IN
        /\ op' = "testConnection"
        /\ args' = <<>>
        /\ sent' = c.sent
        /\ reply' = r
        /\ outcome' = c.outcome
    /\ Frame

GetTablesQuery(schemaName, r) ==
    /\ phase = "ready"
    /\ LET c == GetTablesQueryCall(config, schemaName, r) IN
        /\ op' = "getTablesQuery"
        /\ args' = <<schemaName>>
        /\ sent' = c.sent
        /\ reply' = r
        /\ outcome' = c.outcome
    /\ Frame

DownloadQueryResults(text, values, r) ==
    /\ phase = "ready"
    /\ LET c == DownloadCall(config, text, values, r) IN
        /\ op' = "downloadQueryResults"
        /\ args' = <<text, values>>
        /\ sent' = c.sent
        /\ reply' = r
        /\ outcome' = c.outcome
    /\ Frame

CallReadOnly ==
    /\ phase = "ready"
    /\ op' = "readOnly"
    /\ args' = <<>>
    /\ sent' = <<>>
    /\ reply' = NoReply
    /\ outcome' = [kind |-> "value", value |-> ReadOnly(config)]
    /\ Frame

CreateSchemaIfNotExists(schemaName) ==
    /\ phase = "ready"
    /\ LET c == CreateSchemaCall(config, schemaName) IN
        /\ op' = "createSchemaIfNotExists"
        /\ args' = <<schemaName>>
        /\ sent' = c.sent
        /\ reply' = NoReply
        /\ outcome' = c.outcome
    /\ Frame

CallInformationSchemaQuery ==
    /\ phase = "ready"
    /\ op' = "informationSchemaQuery"
    /\ args' = <<>>
    /\ sent' = <<>>
    /\ reply' = NoReply
    /\ outcome' = [kind |-> "value", value |-> InformationSchemaQuery]
    /\ Frame

\* The caller takes the result; the driver keeps nothing of the call.
Return ==
    /\ phase = "ready"
    /\ op # "idle"
    /\ op' = "idle"
    /\ args' = <<>>
    /\ sent' = <<>>
    /\ reply' = NoReply
    /\ outcome' = NoOutcome
    /\ Frame

\* Between calls: the methods are called one at a time.
Idle == phase = "ready" /\ op = "idle"

QueryStep ==
    /\ Idle
    /\ \E text \in DriverTexts, values \in DriverValueLists, r \in Replies :
           Query(text, values, r)

TestConnectionStep == Idle /\ \E r \in Replies : TestConnection(r)

GetTablesQueryStep ==
    /\ Idle
    /\ \E schemaName \in SchemaNames, r \in Replies : GetTablesQuery(schemaName, r)

DownloadQueryResultsStep ==
    /\ Idle
    /\ \E text \in DriverTexts, values \in DriverValueLists, r \in Replies :
           DownloadQueryResults(text, values, r)

ReadOnlyStep == Idle /\ CallReadOnly

CreateSchemaIfNotExistsStep ==
    Idle /\ \E schemaName \in SchemaNames : CreateSchemaIfNotExists(schemaName)

InformationSchemaQueryStep == Idle /\ CallInformationSchemaQuery

Next ==
    \/ QueryStep
    \/ TestConnectionStep
    \/ GetTablesQueryStep
    \/ DownloadQueryResultsStep
    \/ ReadOnlyStep
    \/ CreateSchemaIfNotExistsStep
    \/ InformationSchemaQueryStep
    \/ Return

Spec == Init /\ [][Next]_vars

(***************************************************************************)
(* Parameter substitution on its own: query() on every text up to MaxLen   *)
(* with every value list up to MaxVals, the client answering OkReply.      *)
(***************************************************************************)
InitSubst ==
    \E setup \in DriverSetups :
        /\ setup[2] = EmptyEnvironment
        /\ setup[1].useManagedIdentity = NoFlag
        /\ Constructed(setup[1], setup[2])

QuerySubstStep ==
    /\ Idle
    /\ \E text \in TextsUpTo(MaxLen), values \in ValueListsUpTo(MaxVals) :
           Query(text, values, OkReply)

NextSubst ==
    \/ QuerySubstStep
    \/ Return

SpecSubst == InitSubst /\ [][NextSubst]_vars

(***************************************************************************)
(* The dialect adapters: KustoQuery.timeGroupedColumn and                  *)
(* KustoFilter.likeIgnoreCase.  Expressions are strings.                   *)
(***************************************************************************)
\* Lines 280-289: the keys GRANULARITY_TO_BIN defines itself.
GranularityKeys ==
    {"day", "week", "hour", "minute", "second", "month", "quarter", "year"}

\* Lines 280-289: the template stored under an own key.
GranularityTemplate(key, date) ==
    CASE key = "day" -> "bin(" \o date \o ", 1d)"
      [] key = "week" -> "bin(" \o date \o ", 7d)"
      [] key = "hour" -> "bin(" \o date \o ", 1h)"
      [] key = "minute" -> "bin(" \o date \o ", 1m)"
      [] key = "second" -> "bin(" \o date \o ", 1s)"
      [] key = "month" -> "startofmonth(" \o date \o ")"
      [] key = "quarter" -> "startofquarter(" \o date \o ")"
      [] key = "year" -> "startofyear(" \o date \o ")"

\* GRANULARITY_TO_BIN is an object literal (line 280), so a property read
\* also finds what Object.prototype defines: functions under these keys ...
InheritedFunctionKeys == {"constructor", "toString", "valueOf"}
\* ... and Object.prototype itself, an object that cannot be called.
InheritedObjectKeys == {"__proto__"}

\* GRANULARITY_TO_BIN[granularity] read as a condition (line 315).
HasGranularity(granularity) ==
    granularity \in GranularityKeys \cup InheritedFunctionKeys \cup InheritedObjectKeys

\* Lines 314-319: timeGroupedColumn(granularity, dimension).
TimeGroupedColumn(granularity, dimension) ==
    IF ~HasGranularity(granularity)
    THEN [kind |-> "error", error |-> "Unsupported granularity: " \o granularity]
    ELSE IF granularity \in GranularityKeys
    THEN [kind |-> "value", value |-> GranularityTemplate(granularity, dimension)]
    ELSE CASE granularity = "toString" ->
                 \* Object.prototype.toString.call(GRANULARITY_TO_BIN)
                 [kind |-> "value", value |-> "[object Object]"]
           [] granularity = "constructor" ->
                 \* Object(dimension): a String object, not a string
                 [kind |-> "object", boxed |-> dimension]
           [] granularity = "valueOf" ->
                 \* the table itself
                 [kind |-> "object", boxed |-> "GRANULARITY_TO_BIN"]
           [] OTHER ->
                 [kind |-> "error",
                  error |-> "GRANULARITY_TO_BIN[granularity] is not a function"]

\* BaseFilter.allocateParam: registers the parameter, returns its placeholder.
AllocateParam(param) == "?"

\* Lines 292-306 with the parameter compared as it is, not lowered.
LikeIgnoreCaseParamAsIs(column, not, param, type) ==
    LET paramExpr == AllocateParam(param)
        prefix == IF not THEN "not " ELSE ""
        operands == "(tolower(" \o column \o "), " \o paramExpr \o ")"
    IN  IF type = Undefined \/ type = "" \/ type = "contains"
        THEN prefix \o "contains" \o operands
        ELSE IF type = "starts" THEN prefix \o "startswith" \o operands
        ELSE IF type = "ends" THEN prefix \o "endswith" \o operands
        ELSE prefix \o "has" \o operands

\* Lines 292-306: likeIgnoreCase(column, not, param, type).
LikeIgnoreCase(column, not, param, type) ==
    LET paramExpr == AllocateParam(param)
        prefix == IF not THEN "not " ELSE ""
        operands == "(tolower(" \o column \o "), tolower(" \o paramExpr \o "))"
    IN  IF type = Undefined \/ type = "" \/ type = "contains"
        THEN prefix \o "contains" \o operands
        ELSE IF type = "starts" THEN prefix \o "startswith" \o operands
        ELSE IF type = "ends" THEN prefix \o "endswith" \o operands
        ELSE prefix \o "has" \o operands

(***************************************************************************)
(* The engine's reading of such a predicate, over a row's column value and *)
(* the parameter's value (both sequences of characters).                   *)
(***************************************************************************)
LowerChar(c) == CASE c = "A" -> "a" [] c = "B" -> "b" [] OTHER -> c
ToLower(s) == [i \in 1..Len(s) |-> LowerChar(s[i])]

Contains(v, p) == \E i \in 1..(Len(v) + 1) :
    i + Len(p) - 1 <= Len(v) /\ SubSeq(v, i, i + Len(p) - 1) = p
StartsWith(v, p) == Len(p) <= Len(v) /\ SubSeq(v, 1, Len(p)) = p
EndsWith(v, p) == Len(p) <= Len(v) /\ SubSeq(v, Len(v) - Len(p) + 1, Len(v)) = p
\* has: the parameter is a whole term of the value; values here are one term.
Has(v, p) == v = p

NativeFunctions == {"contains", "startswith", "endswith", "has"}

Apply(fn, v, p) ==
    CASE fn = "contains" -> Contains(v, p)
      [] fn = "startswith" -> StartsWith(v, p)
      [] fn = "endswith" -> EndsWith(v, p)
      [] fn = "has" -> Has(v, p)

\* The forms of predicate text the reading knows.
PredicateForms(column, placeholder) ==
    {[text |-> (IF n THEN "not " ELSE "") \o fn \o "("
                 \o (IF lc THEN "tolower(" \o column \o ")" ELSE column) \o ", "
                 \o (IF lp THEN "tolower(" \o placeholder \o ")" ELSE placeholder)
                 \o ")",
      negated |-> n, fn |-> fn, lowerColumn |-> lc, lowerParam |-> lp] :
        n \in BOOLEAN, fn \in NativeFunctions, lc \in BOOLEAN, lp \in BOOLEAN}

\* The truth value of predicate text expr on column value v and parameter p.
Eval(expr, column, placeholder, v, p) ==
    LET f == CHOOSE form \in PredicateForms(column, placeholder) : form.text = expr
        holds == Apply(f.fn, IF f.lowerColumn THEN ToLower(v) ELSE v,
                             IF f.lowerParam THEN ToLower(p) ELSE p)
    IN  IF f.negated THEN ~holds ELSE holds

\* Longest column value and parameter value a predicate is read on.
MaxStr == 2

Letters == {"a", "A", "b"}
Strs == UNION {[1..k -> Letters] : k \in 0..MaxStr}

Granularities ==
    GranularityKeys \cup InheritedFunctionKeys \cup InheritedObjectKeys
        \cup {"", "Day", "fortnight", "days"}
Dimensions == {"ts", "Orders.createdAt", "todatetime(x)"}
Columns == {"Name", "Orders.status", "c"}
Params == {"test", "%a%"}
MatchKinds == {Undefined, "", "contains", "starts", "ends", "has", "equals"}

InitDialect ==
    /\ phase = "dialect"
    /\ cfgIn = EmptyConfiguration
    /\ env = EmptyEnvironment
    /\ resolved = NoResolved
    /\ config = NoConfig
    /\ client = NoClient
    /\ events = <<>>
    /\ op = "idle"
    /\ args = <<>>
    /\ sent = <<>>
    /\ reply = NoReply
    /\ outcome = NoOutcome

DialectFrame ==
    UNCHANGED <<phase, cfgIn, env, resolved, config, client, events, sent, reply>>

TimeGroupedColumnStep ==
    /\ phase = "dialect"
    /\ \E granularity \in Granularities, dimension \in Dimensions :
        /\ op' = "timeGroupedColumn"
        /\ args' = <<granularity, dimension>>
        /\ outcome' = TimeGroupedColumn(granularity, dimension)
    /\ DialectFrame

LikeIgnoreCaseStep ==
    /\ phase = "dialect"
    /\ \E column \in Columns, not \in BOOLEAN, param \in Params, type \in MatchKinds :
        /\ op' = "likeIgnoreCase"
        /\ args' = <<column, not, param, type>>
        /\ outcome' = [kind |-> "value",
                       value |-> LikeIgnoreCase(column, not, param, type)]
    /\ DialectFrame

NextDialect == TimeGroupedColumnStep \/ LikeIgnoreCaseStep

SpecDialect == InitDialect /\ [][NextDialect]_vars

(***************************************************************************)
(* Claims about the constructor, under SpecCtor.                           *)
(***************************************************************************)
Constructing == op = "constructor" /\ phase \in {"ready", "failed"}

\* C1: whenever the resolved endpoint or the resolved database is absent or
\* empty, construction fails with the connection-parameters error, whatever
\* the credential fields are, and before any connection string is built,
\* any client is created or any request is made.
C1_MissingParamsFailFirst ==
    (Constructing /\ (resolved.clusterUrl \in {Undefined, ""}
                        \/ resolved.database \in {Undefined, ""}))
        => /\ phase = "failed"
           /\ outcome = [kind |-> "error", error |-> MissingParamsError]
           /\ events = <<>>
           /\ client = NoClient
           /\ sent = <<>>

\* Construction failed on an empty resolved endpoint although the database,
\* the managed-identity flag and all three application credentials are set.
C1_Witness ==
    /\ phase = "failed"
    /\ resolved.clusterUrl = ""
    /\ resolved.database = "cfgdb"
    /\ resolved.useManagedIdentity
    /\ resolved.appId = "cfg-app"
    /\ resolved.appKey = "cfg-key"
    /\ resolved.authorityId = "env-tenant"

Present(x) == x \notin {Undefined, ""}

\* The strategy the documented priority selects for the resolved fields.
ExpectedStrategy(r) ==
    CASE r.useManagedIdentity /\ Present(r.userManagedIdentityId) ->
            [kind |-> "withUserManagedIdentity",
             with |-> <<r.clusterUrl, r.userManagedIdentityId>>]
      [] r.useManagedIdentity /\ ~Present(r.userManagedIdentityId) ->
            [kind |-> "withSystemManagedIdentity", with |-> <<r.clusterUrl>>]
      [] ~r.useManagedIdentity
            /\ Present(r.appId) /\ Present(r.appKey) /\ Present(r.authorityId) ->
            [kind |-> "withAadApplicationKeyAuthentication",
             with |-> <<r.clusterUrl, r.appId, r.appKey, r.authorityId>>]
      [] OTHER ->
            [kind |-> "withTokenCredential",
             with |-> <<r.clusterUrl, "AzureCliCredential">>]

\* C2: with endpoint and database present, construction succeeds and calls
\* exactly one connection-string builder, the one the priority selects:
\* user-assigned managed identity, system-assigned managed identity (both
\* ahead of a complete application credential), application key, and
\* otherwise ambient credential discovery.
C2_ExactlyOneStrategyByPriority ==
    (Constructing /\ Present(resolved.clusterUrl) /\ Present(resolved.database))
        => /\ phase = "ready"
           /\ outcome = [kind |-> "ok"]
           /\ client = [kcsb |-> ExpectedStrategy(resolved)]
           /\ events = <<ExpectedStrategy(resolved).kind, "new Client">>

\* Managed identity without an identity id was selected although app id,
\* secret and authority are all present.
C2_Witness ==
    /\ phase = "ready"
    /\ resolved.useManagedIdentity
    /\ resolved.userManagedIdentityId = Undefined
    /\ resolved.appId = "cfg-client"
    /\ resolved.appKey = "env-key"
    /\ resolved.authorityId = "cfg-tenant"
    /\ client.kcsb.kind = "withSystemManagedIdentity"

Given(x) == x # Undefined

\* The same value, an absent and an empty one both counting as none.
SameValue(a, b) == a = b \/ (~Present(a) /\ ~Present(b))

\* C3 as stated: a config value that is given (whatever it is) is the value
\* used, so that the environment variable is consulted only when none is
\* given; an explicit boolean useManagedIdentity is used as it is.
C3_GivenConfigValueIsUsed ==
    Constructing =>
        /\ Given(cfgIn.clusterUrl)
              => SameValue(resolved.clusterUrl, cfgIn.clusterUrl)
        /\ Given(cfgIn.database) => SameValue(resolved.database, cfgIn.database)
        /\ Given(cfgIn.appId) => SameValue(resolved.appId, cfgIn.appId)
        /\ Given(cfgIn.appKey) => SameValue(resolved.appKey, cfgIn.appKey)
        /\ Given(cfgIn.authorityId)
              => SameValue(resolved.authorityId, cfgIn.authorityId)
        /\ Given(cfgIn.userManagedIdentityId)
              => SameValue(resolved.userManagedIdentityId,
                           cfgIn.userManagedIdentityId)
        /\ TypeOf(cfgIn.useManagedIdentity) = "boolean"
              => resolved.useManagedIdentity = cfgIn.useManagedIdentity.v

\* The first of the candidates that is neither absent nor empty, and the
\* last candidate when none is.
RECURSIVE FirstPresent(_)
FirstPresent(candidates) ==
    IF Len(candidates) = 1 \/ Present(Head(candidates))
    THEN Head(candidates)
    ELSE FirstPresent(Tail(candidates))

\* C3, amended: each string field is the config value when that is given
\* and not empty, and otherwise the environment variable (for the app id and
\* secret: config.appId / appKey, then config.clientId / clientSecret, then
\* the environment); a boolean useManagedIdentity in config is used as it is,
\* false included, and otherwise the flag is on exactly when the environment
\* variable is the string 'true'.
C3_NonEmptyConfigThenEnv ==
    Constructing =>
        /\ resolved.clusterUrl
              = FirstPresent(<<cfgIn.clusterUrl, env.KUSTO_CLUSTER_URL>>)
        /\ resolved.database = FirstPresent(<<cfgIn.database, env.KUSTO_DATABASE>>)
        /\ resolved.appId
              = FirstPresent(<<cfgIn.appId, cfgIn.clientId, env.KUSTO_CLIENT_ID>>)
        /\ resolved.appKey
              = FirstPresent(<<cfgIn.appKey, cfgIn.clientSecret,
                               env.KUSTO_CLIENT_SECRET>>)
        /\ resolved.authorityId
              = FirstPresent(<<cfgIn.authorityId, env.KUSTO_TENANT_ID>>)
        /\ resolved.userManagedIdentityId
              = FirstPresent(<<cfgIn.userManagedIdentityId,
                               env.KUSTO_USER_MANAGED_IDENTITY_ID>>)
        /\ cfgIn.useManagedIdentity = Bool(TRUE) => resolved.useManagedIdentity
        /\ cfgIn.useManagedIdentity = Bool(FALSE) => ~resolved.useManagedIdentity
        /\ cfgIn.useManagedIdentity = NoFlag
              => (resolved.useManagedIdentity
                     <=> env.KUSTO_USE_MANAGED_IDENTITY = "true")

\* An explicit false beat KUSTO_USE_MANAGED_IDENTITY='true', and an empty
\* clusterUrl in config gave way to the environment's.
C3_Witness ==
    /\ phase = "ready"
    /\ cfgIn.useManagedIdentity = Bool(FALSE)
    /\ env.KUSTO_USE_MANAGED_IDENTITY = "true"
    /\ ~resolved.useManagedIdentity
    /\ cfgIn.clusterUrl = ""
    /\ resolved.clusterUrl = "https://env.kusto"
    /\ cfgIn.database = "cfgdb"
    /\ env.KUSTO_DATABASE = "envdb"
    /\ resolved.database = "cfgdb"

(***************************************************************************)
(* Claims about the dialect adapters, under SpecDialect.                   *)
(***************************************************************************)
\* The documented template of each granularity token.
DocumentedTemplate(granularity, expr) ==
    CASE granularity = "second" -> "bin(" \o expr \o ", 1s)"
      [] granularity = "minute" -> "bin(" \o expr \o ", 1m)"
      [] granularity = "hour" -> "bin(" \o expr \o ", 1h)"
      [] granularity = "day" -> "bin(" \o expr \o ", 1d)"
      [] granularity = "week" -> "bin(" \o expr \o ", 7d)"
      [] granularity = "month" -> "startofmonth(" \o expr \o ")"
      [] granularity = "quarter" -> "startofquarter(" \o expr \o ")"
      [] granularity = "year" -> "startofyear(" \o expr \o ")"

DocumentedGranularities ==
    {"second", "minute", "hour", "day", "week", "month", "quarter", "year"}

\* C4: timeGroupedColumn returns the documented template for each of the
\* eight granularity tokens, and for every other token raises the
\* 'Unsupported granularity' failure naming the token, returning nothing.
C4_TemplateOrUnsupported ==
    op = "timeGroupedColumn" =>
        IF args[1] \in DocumentedGranularities
        THEN outcome = [kind |-> "value",
                        value |-> DocumentedTemplate(args[1], args[2])]
        ELSE outcome = [kind |-> "error",
                        error |-> "Unsupported granularity: " \o args[1]]

NativePredicate(type) ==
    CASE type = "contains" -> "contains"
      [] type = "starts" -> "startswith"
      [] type = "ends" -> "endswith"
      [] type = "has" -> "has"

ContainsIgnoringCase(v, p) == Contains(ToLower(v), ToLower(p))

\* C5: for each match kind in {contains, starts, ends, has}, likeIgnoreCase
\* yields the native predicate on tolower(column) and tolower(placeholder),
\* prefixed by 'not ' exactly when negated; on every value and parameter the
\* negated predicate is the opposite of the plain one, and the plain
\* contains predicate is true exactly when the value contains the parameter
\* ignoring case.
C5_LikeIgnoreCasePredicate ==
    (op = "likeIgnoreCase" /\ args[4] \in {"contains", "starts", "ends", "has"})
        => LET column == args[1]
               not == args[2]
               placeholder == AllocateParam(args[3])
               plain == NativePredicate(args[4]) \o "(tolower(" \o column
                            \o "), tolower(" \o placeholder \o "))"
               other == LikeIgnoreCase(column, ~not, args[3], args[4])
           IN  /\ outcome.kind = "value"
               /\ outcome.value = (IF not THEN "not " \o plain ELSE plain)
               /\ other = (IF not THEN plain ELSE "not " \o plain)
               /\ \A v \in Strs, p \in Strs :
                     /\ Eval(outcome.value, column, placeholder, v, p)
                           = ~Eval(other, column, placeholder, v, p)
                     /\ (args[4] = "contains" /\ ~not)
                           => (Eval(outcome.value, column, placeholder, v, p)
                                  <=> ContainsIgnoringCase(v, p))

\* A negated prefix match was produced.
C5_Witness ==
    /\ op = "likeIgnoreCase"
    /\ args = <<"Orders.status", TRUE, "%a%", "starts">>
    /\ outcome.value = "not startswith(tolower(Orders.status), tolower(?))"

(***************************************************************************)
(* Claims about the driver's methods, under Spec.                          *)
(***************************************************************************)
\* C6: in every state of a constructed driver readOnly() is true and
\* createSchemaIfNotExists fails with the 'Unable to create schema' error
\* for every schema name, issuing no request.
C6_ReadOnlyAndNoSchemaCreation ==
    phase = "ready" =>
        /\ ReadOnly(config) = TRUE
        /\ \A schemaName \in SchemaNames :
              CreateSchemaCall(config, schemaName)
                  = [sent |-> <<>>,
                     outcome |-> [kind |-> "error",
                                  error |-> "Unable to create schema, Kusto does not support it"]]
        /\ op = "readOnly" => outcome = [kind |-> "value", value |-> TRUE] /\ sent = <<>>
        /\ op = "createSchemaIfNotExists"
              => /\ outcome.kind = "error"
                 /\ outcome.error = "Unable to create schema, Kusto does not support it"
                 /\ sent = <<>>

\* createSchemaIfNotExists was called with a name that reads as a command.
C6_Witness ==
    /\ op = "createSchemaIfNotExists"
    /\ args = <<".show tables">>
    /\ outcome.kind = "error"
    /\ resolved.useManagedIdentity

\* The text, ignoring leading whitespace, starts with '.'.
LeadingDot(q) ==
    \E i \in 1..Len(q) :
        /\ q[i] = "."
        /\ \A j \in 1..(i - 1) : q[j] \in {" ", "\t", "\n"}

RequestingOps == {"query", "testConnection", "getTablesQuery", "downloadQueryResults"}

\* C8: when the client's request fails, the call fails with that failure
\* after that one request (no retry, no second request, no row list in its
\* place), and config and client are what they were.
C8_FailurePropagates ==
    [][(op' \in RequestingOps /\ reply'.kind = "error")
          => /\ outcome' = [kind |-> "error", error |-> reply'.error]
             /\ Len(sent') = 1
             /\ config' = config
             /\ client' = client]_vars

\* A download failed with the client's failure.
C8_Witness ==
    /\ op = "downloadQueryResults"
    /\ reply = [kind |-> "error", error |-> "Semantic error"]
    /\ outcome = [kind |-> "error", error |-> "Semantic error"]
    /\ Len(sent) = 1

\* The first primary result, when the response has one.
FirstPrimary(r) == r.primaryResults[1]
NoPrimary(r) == ~r.primaryResultsDefined \/ r.primaryResults = <<>>

\* C10: downloadQueryResults sends the query text as given, whatever the
\* values, and returns the first primary result's rows in order with one
\* {name, type} per column in column order ('' for a missing name or type);
\* with no primary result both are empty.
C10_DownloadRowsAndManifest ==
    op = "downloadQueryResults" =>
        /\ Len(sent) = 1
        /\ sent[1].method = "execute"
        /\ sent[1].query = args[1]
        /\ (reply.kind = "results" /\ NoPrimary(reply))
              => outcome = [kind |-> "ok", rows |-> <<>>, types |-> <<>>]
        /\ (reply.kind = "results" /\ ~NoPrimary(reply))
              => /\ outcome.kind = "ok"
                 /\ outcome.rows = FirstPrimary(reply).rows
                 /\ Len(outcome.types) = Len(FirstPrimary(reply).columns)
                 /\ \A i \in 1..Len(outcome.types) :
                       LET col == FirstPrimary(reply).columns[i] IN
                       /\ outcome.types[i].name
                             = (IF col.name = Undefined THEN "" ELSE col.name)
                       /\ outcome.types[i].type
                             = (IF col.type = Undefined THEN "" ELSE col.type)

\* A download with a '?' in the text and a value, answered with two primary
\* results whose first has a column without a name and one without a type.
C10_Witness ==
    /\ op = "downloadQueryResults"
    /\ args = <<<<"a", "?">>, <<[t |-> "number", v |-> 7]>>>>
    /\ reply = Results(TRUE, <<Table1, Table2>>)
    /\ outcome.rows = <<Row2, Row1>>
    /\ outcome.types = <<[name |-> "Id", type |-> "int"],
                         [name |-> "", type |-> "string"],
                         [name |-> "Value", type |-> ""]>>

(***************************************************************************)
(* The claim about parameter substitution, under SpecSubst.                *)
(***************************************************************************)
\* The literal each value is written as.
Literal(value) ==
    CASE value = [t |-> "null"] -> <<"n", "u", "l", "l">>
      [] value = [t |-> "string", v |-> <<"?">>] -> <<"'", "?", "'">>
      [] value = [t |-> "string", v |-> <<"a", "'">>] -> <<"'", "a", "'", "'", "'">>
      [] value = [t |-> "number", v |-> -12] -> <<"-", "1", "2">>
      [] value = [t |-> "boolean", v |-> TRUE] -> <<"t", "r", "u", "e">>
      [] value = ADate ->
            <<"d", "a", "t", "e", "t", "i", "m", "e", "(", "'", "2", "0",
              "2", "3", "-", "0", "1", "-", "0", "2", "T", "0", "0", ":",
              "0", "0", ":", "0", "5", ".", "0", "0", "0", "Z", "'", ")">>
      [] value = [t |-> "object", items |-> <<<<"?", "'">>, <<"a">>>>] ->
            <<"'", "[", "\"", "?", "'", "'", "\"", ",", "\"", "a", "\"",
              "]", "'">>

\* The number of '?' among the first i characters of the text.
RECURSIVE Marks(_, _)
Marks(text, i) ==
    IF i = 0 THEN 0 ELSE Marks(text, i - 1) + (IF text[i] = "?" THEN 1 ELSE 0)

\* What stands for character i of the text in the text sent.
Piece(text, values, i) ==
    IF text[i] = "?" /\ Marks(text, i) <= Len(values)
    THEN Literal(values[Marks(text, i)])
    ELSE <<text[i]>>

RECURSIVE Pieces(_, _, _)
Pieces(text, values, i) ==
    IF i > Len(text) THEN <<>>
    ELSE Piece(text, values, i) \o Pieces(text, values, i + 1)

\* C9: in the text query() sends, the k-th '?' of the text given is the
\* literal of the k-th value for every k up to the number of values, later
\* '?' stay, surplus values are ignored, a '?' inside an inserted literal is
\* not replaced and takes no value, every other character is unchanged; with
\* no values the text is sent as given.
C9_PositionalSinglePass ==
    op = "query" =>
        /\ Len(sent) = 1
        /\ sent[1].query = Pieces(args[1], args[2], 1)
        /\ args[2] = <<>> => sent[1].query = args[1]

\* Three '?', two values, the first of which is the string '?'.
C9_Witness ==
    /\ op = "query"
    /\ args = <<<<"?", "?", "?">>,
                <<[t |-> "string", v |-> <<"?">>], [t |-> "number", v |-> -12]>>>>
    /\ sent[1].query = <<"'", "?", "'", "-", "1", "2", "?">>

=============================================================================
